---------------------------- MODULE Spec2Model ----------------------------
(***************************************************************************)
(* business_finder: the bounded-time search orchestration of               *)
(* BusinessFinder (src/main.py).                                           *)
(*                                                                         *)
(* Nine specifications share the variables below:                          *)
(*   Spec          search_businesses / _search_with_timeout / search_task  *)
(*                 with a controller thread, one worker thread per task    *)
(*                 and a clock counted in seconds;                         *)
(*   SpecValidate  validate_postal_code applied to bounded strings;        *)
(*   SpecTimeout   _calculate_timeout applied to bounded arguments;        *)
(*   SpecLimit     the effective max_results of _search_with_timeout and   *)
(*                 what search_task derives from it;                       *)
(*   SpecDetail    the candidates of one keyword: slice, details, email,   *)
(*                 chunks and pauses (search_task lines 251-291);          *)
(*   SpecChunk     the same lines for every limit of 1..100;               *)
(*   SpecExport    one call of export_to_sheets, with _create_new_sheet    *)
(*                 under its retry decorator;                              *)
(*   SpecSanitize  _sanitize_sheet_name applied to bounded names and to    *)
(*                 its own output;                                         *)
(*   SpecAuth      authorize, load_user and the routes under               *)
(*                 @login_required (src/app.py).                           *)
(*                                                                         *)
(* Strings that the code inspects character by character (postal codes)    *)
(* are sequences of one-character strings.                                 *)
(***************************************************************************)
EXTENDS Integers, Sequences, FiniteSets, TLC

VARIABLES
    \* ---- the request (arguments of search_businesses)
    postal_codes, keywords, country, max_results,
    \* ---- search_businesses (controller thread)
    pc, i_validate, i_search, all_results, errors, results,
    \* ---- _search_with_timeout: locals shared with the worker closure
    result, error_message, deadline, timed_out,
    \* ---- search_task (worker thread)
    wpc, kw, nplaces, pi, wake,
    \* ---- the clock, in seconds since the request started
    now,
    \* ---- observation of the run (not read by any action's guard);
    \*      outcomes holds what each place search of the task last
    \*      started returned, and the keywords for which a details call
    \*      raised
    snapshot, geo, status, appended, called, outcomes,
    \* ---- validate_postal_code applied to one argument pair
    v_code, v_country, v_result,
    \* ---- _calculate_timeout applied to two arguments
    max_results_a, max_results_b, timeout_a, timeout_b,
    \* ---- line 218 applied to one argument: the argument, the count of
    \*      candidates the provider returns, and what the task derives
    l_max_results, l_found, l_limit, l_kept, l_chunk,
    \* ---- lines 251-291 for one keyword: the effective max_results, the
    \*      count of candidates the provider returned, len(places), the
    \*      number of the next candidate, the position, the records
    \*      appended and the calls made so far; and how many candidates
    \*      the environment lets depart from the plain course (details
    \*      returned, no website)
    d_max_results, d_found, d_places, d_i, d_pc, d_result, d_events,
    d_budget,
    \* ---- export_to_sheets: its arguments, its position, the stack of
    \*      _create_new_sheet invocations, the titles known to exist in the
    \*      spreadsheet, the calls issued so far, the wall clock (seconds
    \*      since midnight), the local sheet_name after creation, and the
    \*      value returned
    businesses, sheet_name, xpc, frames, titles, calls, xnow, created,
    export_result,
    \* ---- _sanitize_sheet_name applied to a name, and again to its own
    \*      output: the name, the two clock readings, the two outputs
    s_name, s_clock, s_once, s_clock2, s_twice, s_pc,
    \* ---- the web layer's access control (src/app.py): the two allow-lists,
    \*      the user id kept in the browser session, the last request with
    \*      its answer, and the count of requests served
    ALLOWED_EMAILS, ALLOWED_DOMAINS, session_user_id, last_request,
    n_requests

searchVars == <<postal_codes, keywords, country, max_results,
                pc, i_validate, i_search, all_results, errors, results,
                result, error_message, deadline, timed_out,
                wpc, kw, nplaces, pi, wake, now,
                snapshot, geo, status, appended, called,
                outcomes>>
validateVars == <<v_code, v_country, v_result>>
timeoutVars == <<max_results_a, max_results_b, timeout_a, timeout_b>>
limitVars == <<l_max_results, l_found, l_limit, l_kept, l_chunk>>
exportVars == <<businesses, sheet_name, xpc, frames, titles, calls, xnow,
                created, export_result>>
detailVars == <<d_max_results, d_found, d_places, d_i, d_pc, d_result,
                d_events, d_budget>>
sanitizeVars == <<s_name, s_clock, s_once, s_clock2, s_twice, s_pc>>
authVars == <<ALLOWED_EMAILS, ALLOWED_DOMAINS, session_user_id,
              last_request, n_requests>>
vars == <<searchVars, validateVars, timeoutVars, limitVars, detailVars,
          exportVars, sanitizeVars, authVars>>

\* Python's None, and the value of a variable not yet assigned.
None == "None"

Min(a, b) == IF a <= b THEN a ELSE b
Max(a, b) == IF a >= b THEN a ELSE b

(***************************************************************************)
(* Bounds of the model.                                                    *)
(***************************************************************************)
\* longest string handed to validate_postal_code in SpecValidate
MaxCodeLen == 7
\* longest tail after "NNNNN-" handed to validate_postal_code
MaxSuffixLen == 5
\* largest max_results handed to _calculate_timeout in SpecTimeout
MaxResultsArg == 110
\* postal codes per request in Spec
MaxCodes == 2
\* keywords per request in Spec
MaxKeywords == 2
\* largest max_results of a request in Spec
MaxRequested == 2
\* candidates the place search may return for one keyword
MaxPlaces == 3
\* the clock stops advancing here
MaxTime == 7
\* largest max_results handed to line 218 in SpecLimit
MaxLimitArg == 103
\* most negative max_results handed to line 218 in SpecLimit, as a magnitude
MaxNegativeArg == 3
\* candidates the place search may return in SpecLimit
MaxFound == 4
\* largest effective max_results in SpecDetail
MaxDetailLimit == 4
\* candidates the place search may return in SpecDetail
MaxDetailFound == 4
\* records handed to export_to_sheets
MaxRecords == 2
\* createSheet calls of one export that the service fails
MaxFailures == 4
\* longest time one createSheet call takes, in seconds
MaxCallSeconds == 1
\* length of the long sheet name handed to export_to_sheets
MaxNameLen == 101
\* length of the sheet name that is 7 characters short of the limit or less
NearMaxNameLen == 94
\* the wall clock when export_to_sheets is called, in seconds since midnight
ClockStart == 43200
\* largest effective max_results of the chunk loop
MaxChunkLimit == 100
\* most candidates the provider returns to the chunk loop
MaxChunkFound == 10
\* most candidates of the chunk loop whose details call raises or that have
\* a website
MaxChunkDepartures == 1
\* most requests one browser session sends to the web layer
MaxRequests == 3
\* longest head and tail of a name given to _sanitize_sheet_name
MaxAffixLen == 1
\* longest filling between the head and the tail of such a name
MaxFillingLen == 101

(***************************************************************************)
(* Program constants (BusinessFinder.__init__).                            *)
(***************************************************************************)
SHEET_NAME_MAX_LENGTH == 100
DEFAULT_MAX_RESULTS == 20
MAX_ALLOWED_RESULTS == 100
BASE_SEARCH_TIMEOUT == 60
MAX_SEARCH_TIMEOUT == 300

(***************************************************************************)
(* validate_postal_code: re.match(pattern, postal_code) with               *)
(*   US:    ^\d{5}(-\d{4})?$                                               *)
(*   else:  ^\d{6}$                                                        *)
(* Positions are 1-based; p is the position of the next unread character.  *)
(***************************************************************************)
Digits == {"0", "1", "2", "3", "4", "5", "6", "7", "8", "9"}

\* \d{n} at position p
DigitsAt(s, p, n) ==
    /\ p + n - 1 <= Len(s)
    /\ \A j \in p..(p + n - 1) : s[j] \in Digits

\* Python's "$" (no MULTILINE flag): the end of the string, or just before
\* a newline that is the last character of the string.
DollarAt(s, p) ==
    \/ p = Len(s) + 1
    \/ p = Len(s) /\ s[p] = "\n"

\* ^\d{5}(-\d{4})?$ : the optional group is tried first, then skipped
match_us(s) ==
    /\ DigitsAt(s, 1, 5)
    /\ \/ (6 <= Len(s) /\ s[6] = "-" /\ DigitsAt(s, 7, 4) /\ DollarAt(s, 11))
       \/ DollarAt(s, 6)

\* ^\d{6}$
match_in(s) == DigitsAt(s, 1, 6) /\ DollarAt(s, 7)

\* the patterns without their closing "$"
validate_postal_code_unanchored(postal_code, ctry) ==
    IF ctry = "US" THEN DigitsAt(postal_code, 1, 5)
    ELSE DigitsAt(postal_code, 1, 6)

validate_postal_code(postal_code, ctry) ==
    IF ctry = "US" THEN match_us(postal_code) ELSE match_in(postal_code)

\* str.strip(): leading and trailing whitespace removed
Whitespace == {" ", "\t", "\n"}

RECURSIVE lstrip(_)
lstrip(s) ==
    IF s # <<>> /\ Head(s) \in Whitespace THEN lstrip(Tail(s)) ELSE s

RECURSIVE rstrip(_)
rstrip(s) ==
    IF s # <<>> /\ s[Len(s)] \in Whitespace
    THEN rstrip(SubSeq(s, 1, Len(s) - 1))
    ELSE s

strip(s) == rstrip(lstrip(s))

(***************************************************************************)
(* _calculate_timeout.  The code computes                                  *)
(*     int((max_results / 20) * 60)                                        *)
(* in IEEE-754 doubles: max_results/20 is rounded, the product is rounded  *)
(* again, and int() truncates.  For the arguments below 200 the product    *)
(* falls short of 3*max_results exactly at 41, 82, 164 and 169, where      *)
(* truncation yields 3*max_results - 1; everywhere else it is exact.       *)
(***************************************************************************)
FloatShort == {41, 82, 164, 169}

scaled_timeout(m) ==
    (m * BASE_SEARCH_TIMEOUT) \div DEFAULT_MAX_RESULTS
        - (IF m \in FloatShort THEN 1 ELSE 0)

\* An optional integer (max_results: int = None) is <<>> for None and <<n>>
\* for the integer n.
NoneInt == <<>>
Some(n) == <<n>>

\* "not max_results or max_results <= 0": None, 0 and the negatives
NotPositive(m) == m = NoneInt \/ m[1] <= 0

_calculate_timeout_nocap(m) ==
    scaled_timeout(IF NotPositive(m) THEN DEFAULT_MAX_RESULTS ELSE m[1])

\* the fallback taken for None and 0 only ("if not max_results:")
_calculate_timeout_nonegative(m) ==
    LET mr == IF m = NoneInt \/ m[1] = 0 THEN DEFAULT_MAX_RESULTS ELSE m[1]
    IN  Min(scaled_timeout(mr), MAX_SEARCH_TIMEOUT)

_calculate_timeout(m) ==
    LET mr == IF NotPositive(m) THEN DEFAULT_MAX_RESULTS ELSE m[1]
    IN  Min(scaled_timeout(mr), MAX_SEARCH_TIMEOUT)

(***************************************************************************)
(* Values of the variables of a specification that is not running.         *)
(***************************************************************************)
IdleSearch ==
    /\ postal_codes = <<>> /\ keywords = <<>> /\ country = None
    /\ max_results = NoneInt
    /\ pc = "idle" /\ i_validate = 0 /\ i_search = 0
    /\ all_results = <<>> /\ errors = <<>> /\ results = <<>>
    /\ result = <<>> /\ error_message = None /\ deadline = 0
    /\ timed_out = FALSE
    /\ wpc = "none" /\ kw = 0 /\ nplaces = 0 /\ pi = 0 /\ wake = 0
    /\ now = 0
    /\ snapshot = <<>> /\ geo = <<>> /\ status = <<>>
    /\ appended = <<>> /\ called = {} /\ outcomes = {}

IdleValidate == v_code = <<>> /\ v_country = None /\ v_result = "unset"

IdleTimeout ==
    /\ max_results_a = NoneInt /\ max_results_b = NoneInt
    /\ timeout_a = NoneInt /\ timeout_b = NoneInt

IdleLimit ==
    /\ l_max_results = NoneInt /\ l_found = 0 /\ l_limit = NoneInt
    /\ l_kept = NoneInt /\ l_chunk = NoneInt

IdleDetail ==
    /\ d_max_results = 0 /\ d_found = 0 /\ d_places = 0 /\ d_i = 0
    /\ d_pc = "idle" /\ d_result = <<>> /\ d_events = <<>>
    /\ d_budget = 0

IdleExport ==
    /\ businesses = <<>> /\ sheet_name = <<>> /\ xpc = "idle"
    /\ frames = <<>> /\ titles = {} /\ calls = <<>> /\ xnow = 0
    /\ created = <<>> /\ export_result = <<>>

IdleSanitize ==
    /\ s_name = <<>> /\ s_clock = 0 /\ s_once = <<>> /\ s_clock2 = 0
    /\ s_twice = <<>> /\ s_pc = "idle"

IdleAuth ==
    /\ ALLOWED_EMAILS = {} /\ ALLOWED_DOMAINS = {}
    /\ session_user_id = <<>> /\ n_requests = 0
    /\ last_request = [route |-> "none", email |-> <<>>, answer |-> "none"]

(***************************************************************************)
(* SpecValidate: validate_postal_code applied to every string of a bounded *)
(* family, for both countries.                                             *)
(***************************************************************************)
\* characters of the inputs: a digit, the dash, a letter, a newline
InputAlphabet == {"4", "-", "x", "\n"}

SeqsUpTo(S, n) == UNION {[1..k -> S] : k \in 0..n}

\* "NNNNN-", the head of a ZIP+4 code
ZipHead == <<"4", "4", "4", "4", "4", "-">>

ValidateInputs ==
    SeqsUpTo(InputAlphabet, MaxCodeLen)
        \cup {ZipHead \o t : t \in SeqsUpTo(InputAlphabet, MaxSuffixLen)}

InitValidate ==
    /\ v_code \in ValidateInputs
    /\ v_country \in {"US", "IN"}
    /\ v_result = "unset"
    /\ IdleSearch /\ IdleTimeout /\ IdleLimit /\ IdleDetail
    /\ IdleExport /\ IdleSanitize /\ IdleAuth

ApplyValidate ==
    /\ v_result = "unset"
    /\ v_result' = IF validate_postal_code(v_code, v_country)
                   THEN "True" ELSE "False"
    /\ UNCHANGED <<v_code, v_country, searchVars, timeoutVars, limitVars,
                   detailVars, exportVars,
                   sanitizeVars, authVars>>

NextValidate == ApplyValidate

SpecValidate == InitValidate /\ [][NextValidate]_vars

(***************************************************************************)
(* SpecTimeout: _calculate_timeout applied to two arguments drawn from     *)
(* None and the integers -1..MaxResultsArg.                                *)
(***************************************************************************)
TimeoutInputs == {NoneInt} \cup {Some(n) : n \in (-1)..MaxResultsArg}

InitTimeout ==
    /\ max_results_a \in TimeoutInputs
    /\ max_results_b \in TimeoutInputs
    /\ timeout_a = NoneInt /\ timeout_b = NoneInt
    /\ IdleSearch /\ IdleValidate /\ IdleLimit /\ IdleDetail
    /\ IdleExport /\ IdleSanitize /\ IdleAuth

ApplyTimeoutA ==
    /\ timeout_a = NoneInt
    /\ timeout_a' = Some(_calculate_timeout(max_results_a))
    /\ UNCHANGED <<max_results_a, max_results_b, timeout_b,
                   searchVars, validateVars, limitVars, detailVars,
                   exportVars,
                   sanitizeVars, authVars>>

ApplyTimeoutB ==
    /\ timeout_b = NoneInt
    /\ timeout_b' = Some(_calculate_timeout(max_results_b))
    /\ UNCHANGED <<max_results_a, max_results_b, timeout_a,
                   searchVars, validateVars, limitVars, detailVars,
                   exportVars,
                   sanitizeVars, authVars>>

NextTimeout == ApplyTimeoutA \/ ApplyTimeoutB

SpecTimeout == InitTimeout /\ [][NextTimeout]_vars

(***************************************************************************)
(* Spec: one call of search_businesses.                                    *)
(*                                                                         *)
(* Two threads: the controller (search_businesses, and inside it           *)
(* _search_with_timeout) and the worker that runs the closure search_task  *)
(* on the task's ThreadPoolExecutor.  Every external call of the worker    *)
(* (geocode, places, place) may take any amount of time, or never return:  *)
(* a worker step may be delayed by any number of clock ticks.  The         *)
(* controller's own statements take no time: the clock advances only while *)
(* the controller is blocked.                                              *)
(***************************************************************************)
Zip94105 == <<"9", "4", "1", "0", "5">>
ZipPadded == <<" ", "0", "0", "0", "0", "0">>
Pin941055 == <<"9", "4", "1", "0", "5", "5">>
CodePool == {Zip94105, ZipPadded, Pin941055}

KeywordPool == <<"bakery", "cafe", "deli", "florist">>

CodeLists == UNION {[1..n -> CodePool] : n \in 1..MaxCodes}
KeywordLists == {SubSeq(KeywordPool, 1, Min(MaxKeywords, 4))}

NTasks == Len(postal_codes)

\* line 218: min(max_results or DEFAULT_MAX_RESULTS, MAX_ALLOWED_RESULTS)
effective_max_results(mr) ==
    Min(IF mr = NoneInt \/ mr[1] = 0 THEN DEFAULT_MAX_RESULTS ELSE mr[1],
        MAX_ALLOWED_RESULTS)

\* line 221
search_timeout == _calculate_timeout(Some(effective_max_results(max_results)))

\* line 251: len(results[:max_results]) for a provider list of n candidates
sliced_len(n, limit) ==
    IF limit >= 0 THEN Min(n, limit) ELSE Max(n + limit, 0)

\* line 255 (Python's // rounds toward minus infinity, as \div does)
chunk_size(limit) == Min(5, Max(2, limit \div 10))

\* line 291: time.sleep(max(1, min(2, chunk_size / 3))), in whole seconds
\* (the fraction of a second is dropped: the sleep lasts at least this long)
sleep_seconds(cs) == Max(1, Min(2, cs \div 3))

\* max_results of a request: a small positive count, or a negative one
\* (the web layer hands over int(max_results) as it is)
RequestedResults == {Some(n) : n \in {0 - 1} \cup 1..MaxRequested}

InitSearch ==
    /\ postal_codes \in CodeLists
    /\ keywords \in KeywordLists
    /\ country \in {"US", "IN"}
    /\ max_results \in RequestedResults
    /\ pc = "validate" /\ i_validate = 1 /\ i_search = 0
    /\ all_results = <<>> /\ errors = <<>> /\ results = <<>>
    /\ result = <<>> /\ error_message = None /\ deadline = 0
    /\ timed_out = FALSE
    /\ wpc = "none" /\ kw = 0 /\ nplaces = 0 /\ pi = 0 /\ wake = 0
    /\ now = 0
    /\ snapshot = <<>>
    /\ geo = [i \in 1..Len(postal_codes) |-> "pending"]
    /\ status = [i \in 1..Len(postal_codes) |->
                     [state |-> "PENDING", records |-> 0]]
    /\ called = {} /\ outcomes = {}
    /\ appended = <<>>
    /\ IdleValidate /\ IdleTimeout /\ IdleLimit /\ IdleDetail
    /\ IdleExport /\ IdleSanitize /\ IdleAuth

workerVars == <<wpc, kw, nplaces, pi, wake>>
requestVars == <<postal_codes, keywords, country, max_results>>
otherSpecVars ==
    <<validateVars, timeoutVars, limitVars, detailVars, exportVars,
                   sanitizeVars, authVars>>

(***************************************************************************)
(* search_businesses, lines 325-328: one iteration of the validation loop. *)
(* A code that fails raises ValueError out of search_businesses; after the *)
(* last code the search loop begins.                                       *)
(***************************************************************************)
ValidateStep ==
    /\ pc = "validate"
    /\ i_validate <= NTasks
    /\ IF validate_postal_code(strip(postal_codes[i_validate]), country)
       THEN /\ i_validate' = i_validate + 1
            /\ IF i_validate = NTasks
               THEN pc' = "search" /\ i_search' = 1
               ELSE pc' = pc /\ i_search' = i_search
       ELSE pc' = "raised" /\ UNCHANGED <<i_validate, i_search>>
    /\ UNCHANGED <<requestVars, all_results, errors, results, result,
                   error_message, deadline, timed_out, workerVars, now,
                   snapshot, geo, status, appended, called, outcomes,
                   otherSpecVars>>

(***************************************************************************)
(* search_businesses line 331-334 entering _search_with_timeout, lines     *)
(* 214-222 and 303-304: fresh result list, the deadline, and the worker    *)
(* submitted to a new single-thread executor.  The controller then blocks  *)
(* in future.result(timeout=search_timeout).                               *)
(***************************************************************************)
StartTask ==
    /\ pc = "search"
    /\ i_search <= NTasks
    /\ result' = <<>>
    /\ error_message' = None
    /\ timed_out' = FALSE
    /\ snapshot' = <<>>
    /\ deadline' = now + search_timeout
    /\ wpc' = "geocode"
    /\ kw' = 0 /\ nplaces' = 0 /\ pi' = 0 /\ wake' = 0
    /\ status' = [status EXCEPT ![i_search].state = "RUNNING"]
    /\ pc' = "waiting"
    /\ outcomes' = {}
    /\ UNCHANGED <<requestVars, i_validate, i_search, all_results, errors,
                   results, now, geo, appended, called, otherSpecVars>>

\* "return result" (lines 312 and 318): the list object itself.  The caller
\* reads it once the with block has been left, so it sees the list as it is
\* then (res); snap is the list as it was when the deadline fired.
returned_list_empty(res, snap) == <<>>
returned_list(res, snap) == res

\* line 335: all_results.extend(results)
extend(all, res) == all \o res

\* The state of the task as _search_with_timeout leaves it; its locals
\* search_timeout and error_message end with the call.
task_status ==
    IF timed_out THEN "TIMED_OUT"
    ELSE IF result = <<>> /\ error_message # None THEN "FAILED"
    ELSE "COMPLETED"

\* a task that ends with an error and no record raises out of the request
ReturnToCaller_raise_on_error ==
    /\ IF result = <<>> /\ error_message # None
       THEN pc' = "raised" /\ UNCHANGED <<results, all_results, i_search>>
       ELSE /\ results' = result
            /\ all_results' = all_results \o result
            /\ i_search' = i_search + 1
            /\ pc' = "search"
    /\ status' = [status EXCEPT ![i_search] =
                      [state |-> task_status, records |-> Len(result)]]
    /\ error_message' = None /\ deadline' = 0
    /\ UNCHANGED <<requestVars, i_validate, errors, result, timed_out,
                   workerVars, now, snapshot, geo, appended, called, outcomes,
                   otherSpecVars>>

\* _search_with_timeout returns to search_businesses (lines 334-335).  It
\* has no raise statement and search_task catches every Exception, so the
\* except branch of lines 336-338 is never entered and errors stays as it is.
ReturnToCaller ==
    /\ results' = returned_list(result, snapshot)
    /\ all_results' = extend(all_results, results')
    /\ status' = [status EXCEPT ![i_search] =
                      [state |-> task_status, records |-> Len(results')]]
    /\ i_search' = i_search + 1
    /\ pc' = "search"
    /\ error_message' = None /\ deadline' = 0
    /\ UNCHANGED <<requestVars, i_validate, errors, result, timed_out,
                   workerVars, now, snapshot, geo, appended, called, outcomes,
                   otherSpecVars>>

\* line 306: the worker finished, future.result returns; leaving the with
\* block finds the worker idle; lines 315-318 log and return.
FutureDone ==
    /\ pc = "waiting"
    /\ wpc = "finished"
    /\ ReturnToCaller

\* lines 306-313: the deadline elapsed with the worker still running.
\* With records present the function executes "return result" (line 312);
\* otherwise it sets error_message and falls through to line 318.  Either
\* way control leaves the with block through ThreadPoolExecutor.__exit__,
\* which is shutdown(wait=True).
FutureTimeout ==
    /\ pc = "waiting"
    /\ wpc # "finished"
    /\ now >= deadline
    /\ timed_out' = TRUE
    /\ snapshot' = result
    /\ error_message' = IF result # <<>> THEN error_message
                        ELSE "Search timed out"
    /\ pc' = "shutdown"
    /\ UNCHANGED <<requestVars, i_validate, i_search, all_results, errors,
                   results, result, deadline, workerVars, now, geo, status,
                   appended, called, outcomes,
                   otherSpecVars>>

\* an executor shut down without waiting: the function returns while the
\* worker is still running
ShutdownJoin_nowait ==
    /\ pc = "shutdown"
    /\ ReturnToCaller

\* line 303, leaving the with block: executor.shutdown(wait=True) joins the
\* worker thread; only then does _search_with_timeout return.
ShutdownJoin ==
    /\ pc = "shutdown"
    /\ wpc = "finished"
    /\ ReturnToCaller

\* lines 340-343: the loop is over, search_businesses returns all_results
Finish ==
    /\ pc = "search"
    /\ i_search > NTasks
    /\ pc' = "done"
    /\ UNCHANGED <<requestVars, i_validate, i_search, all_results, errors,
                   results, result, error_message, deadline, timed_out,
                   workerVars, now, snapshot, geo, status, appended, called, outcomes,
                   otherSpecVars>>

\* what search_businesses hands to its caller (line 343)
ReturnValue == all_results

(***************************************************************************)
(* search_task, the worker closure (lines 224-300).                        *)
(***************************************************************************)
limit == effective_max_results(max_results)

\* the record appended at line 283 for candidate number p of the current
\* keyword: the fields the task itself decides, and the candidate
business_info_first_keyword(p) ==
    [postal_code |-> strip(postal_codes[i_search]),
     keyword |-> keywords[1],
     place |-> p]

business_info(p) ==
    [postal_code |-> strip(postal_codes[i_search]),
     keyword |-> keywords[kw],
     place |-> p]

\* what a call of the worker for the current keyword did: the place search
\* returned n candidates or raised (n = -1); a details call raised (n = -1)
call_outcome(op, n) ==
    [op |-> op, task |-> i_search, keyword |-> keywords[kw], found |-> n]

\* the for loop of line 240 moves to the keyword after k, or the task ends.
\* The loop variables of the keyword just left (places, the chunk index,
\* the sleep) are dead: each is assigned again before it is read.
NextKeyword(k) ==
    /\ IF k < Len(keywords)
       THEN kw' = k + 1 /\ wpc' = "places"
       ELSE kw' = 0 /\ wpc' = "finished"
    /\ nplaces' = 0 /\ pi' = 0 /\ wake' = 0

\* lines 228-237: the geocode call returns a match, returns no match (the
\* task records its error and returns), or raises (caught at line 297).
WGeocode ==
    /\ wpc = "geocode"
    /\ \E outcome \in {"found", "nomatch", "error"} :
        /\ geo' = [geo EXCEPT ![i_search] = outcome]
        /\ IF outcome = "found"
           THEN /\ NextKeyword(0)
                /\ error_message' = error_message
           ELSE /\ wpc' = "finished"
                /\ UNCHANGED <<kw, nplaces, pi, wake>>
                /\ error_message' =
                       IF outcome = "nomatch"
                       THEN "Could not find location"
                       ELSE "geocode raised"
    /\ called' = called \cup {"geocode"}
    /\ outcomes' = outcomes
    /\ UNCHANGED <<requestVars, pc, i_validate, i_search, all_results,
                   errors, results, result, deadline, timed_out, now,
                   snapshot, status, appended, otherSpecVars>>

\* a place search that raises ends the task (no try around line 245)
WPlaces_abort_on_error ==
    /\ wpc = "places"
    /\ \E n \in (-1)..MaxPlaces :
        /\ IF n = -1
           THEN wpc' = "finished" /\ UNCHANGED <<kw, nplaces, pi, wake>>
           ELSE IF sliced_len(n, limit) = 0
           THEN NextKeyword(kw)
           ELSE /\ nplaces' = sliced_len(n, limit)
                /\ pi' = 1
                /\ wpc' = "detail"
                /\ UNCHANGED <<kw, wake>>
        /\ outcomes' = outcomes \cup {call_outcome("places", n)}
    /\ called' = called \cup {"places"}
    /\ UNCHANGED <<requestVars, pc, i_validate, i_search, all_results,
                   errors, results, result, error_message, deadline,
                   timed_out, now, snapshot, geo, status, appended,
                   otherSpecVars>>

\* lines 241-256 and 293-295: the place search for keywords[kw] raises (the
\* keyword is skipped) or returns n candidates, cut to the first `limit`.
\* With no candidate the chunk loop has no iteration.
WPlaces ==
    /\ wpc = "places"
    /\ \E n \in (-1)..MaxPlaces :
        /\ IF n = -1 \/ sliced_len(n, limit) = 0
           THEN NextKeyword(kw)
           ELSE /\ nplaces' = sliced_len(n, limit)
                /\ pi' = 1
                /\ wpc' = "detail"
                /\ UNCHANGED <<kw, wake>>
        /\ outcomes' = outcomes \cup {call_outcome("places", n)}
    /\ called' = called \cup {"places"}
    /\ UNCHANGED <<requestVars, pc, i_validate, i_search, all_results,
                   errors, results, result, error_message, deadline,
                   timed_out, now, snapshot, geo, status, appended,
                   otherSpecVars>>

\* candidate p closes its chunk (lines 256-258)
EndsChunk(p) == p % chunk_size(limit) = 0 \/ p = nplaces

\* lines 259-291: the details of candidate pi are fetched; on success the
\* record is appended to result, on an exception the candidate is skipped.
\* After the last candidate of a chunk the worker sleeps.
WDetail ==
    /\ wpc = "detail"
    /\ \E ok \in BOOLEAN :
        IF ok
        THEN /\ result' = Append(result, business_info(pi))
             /\ appended' = Append(appended, business_info(pi))
             /\ outcomes' = outcomes
        ELSE /\ outcomes' = outcomes \cup {call_outcome("place", -1)}
             /\ UNCHANGED <<result, appended>>
    /\ pi' = pi + 1
    /\ IF EndsChunk(pi)
       THEN wpc' = "sleep" /\ wake' = now + sleep_seconds(chunk_size(limit))
       ELSE wpc' = wpc /\ wake' = wake
    /\ called' = called \cup {"place"}
    /\ UNCHANGED <<requestVars, pc, i_validate, i_search, all_results,
                   errors, results, error_message, deadline, timed_out, kw,
                   nplaces, now, snapshot, geo, status, otherSpecVars>>

\* line 291 returns: the next chunk, or the next keyword
WWake ==
    /\ wpc = "sleep"
    /\ now >= wake
    /\ IF pi > nplaces
       THEN NextKeyword(kw)
       ELSE wpc' = "detail" /\ UNCHANGED <<kw, nplaces, pi, wake>>
    /\ UNCHANGED <<requestVars, pc, i_validate, i_search, all_results,
                   errors, results, result, error_message, deadline,
                   timed_out, now, snapshot, geo, status, appended, called, outcomes,
                   otherSpecVars>>

WorkerRunning == wpc \notin {"none", "finished"}

\* One second passes.  Time passes only while the controller is blocked:
\* in future.result before the deadline, or in the executor's shutdown.
Tick ==
    /\ now < MaxTime
    /\ WorkerRunning
    /\ \/ pc = "waiting" /\ now < deadline
       \/ pc = "shutdown"
    /\ now' = now + 1
    /\ UNCHANGED <<requestVars, pc, i_validate, i_search, all_results,
                   errors, results, result, error_message, deadline,
                   timed_out, workerVars, snapshot, geo, status, appended,
                   called, outcomes,
                   otherSpecVars>>

Next ==
    \/ ValidateStep
    \/ StartTask
    \/ FutureDone
    \/ FutureTimeout
    \/ ShutdownJoin
    \/ Finish
    \/ WGeocode
    \/ WPlaces
    \/ WDetail
    \/ WWake
    \/ Tick

Init == InitSearch

Spec == Init /\ [][Next]_vars

(***************************************************************************)
(* SpecLimit: line 218 applied to None and the integers                    *)
(* -MaxNegativeArg..MaxLimitArg, and what search_task derives from the     *)
(* outcome for a provider list of l_found candidates: the length of the    *)
(* slice of line 251 and the chunk size of line 255.                       *)
(***************************************************************************)
LimitInputs ==
    {NoneInt} \cup {Some(n) : n \in (0 - MaxNegativeArg)..MaxLimitArg}

InitLimit ==
    /\ l_max_results \in LimitInputs
    /\ l_found \in 0..MaxFound
    /\ l_limit = NoneInt /\ l_kept = NoneInt /\ l_chunk = NoneInt
    /\ IdleSearch /\ IdleValidate /\ IdleTimeout /\ IdleDetail
    /\ IdleExport /\ IdleSanitize /\ IdleAuth

ApplyLimit ==
    /\ l_limit = NoneInt
    /\ l_limit' = Some(effective_max_results(l_max_results))
    /\ l_kept' = Some(sliced_len(l_found, l_limit'[1]))
    /\ l_chunk' = Some(chunk_size(l_limit'[1]))
    /\ UNCHANGED <<l_max_results, l_found, searchVars, validateVars,
                   timeoutVars, detailVars, exportVars,
                   sanitizeVars, authVars>>

NextLimit == ApplyLimit

SpecLimit == InitLimit /\ [][NextLimit]_vars

(***************************************************************************)
(* SpecDetail: search_task lines 251-291 for one keyword.  The provider    *)
(* returned d_found candidates; they are cut to the first d_max_results    *)
(* and processed in chunks, the worker sleeping after each chunk.          *)
(* For each candidate the details call returns or raises; when it returns  *)
(* with a website, _extract_email (lines 345-371) fetches the page and     *)
(* finds an address ("found"), finds none ("nomatch"), or fails in the     *)
(* fetch or the parse ("failed"), which it catches, returning ''.          *)
(***************************************************************************)
ScrapeOutcomes == {"none", "found", "nomatch", "failed"}

\* lines 278-281 and 345-371: the email of the record
_extract_email(scrape) == IF scrape = "found" THEN "email" ELSE ""

\* one entry of d_events: a details call for candidate p, or a sleep (p = 0)
call_event(op, p, fetch, scrape) ==
    [op |-> op, place |-> p, fetch |-> fetch, scrape |-> scrape]

InitDetail ==
    /\ d_max_results \in 1..MaxDetailLimit
    /\ d_found \in 0..MaxDetailFound
    /\ d_places = 0 /\ d_i = 0 /\ d_pc = "slice"
    /\ d_result = <<>> /\ d_events = <<>>
    /\ d_budget = MaxDetailFound
    /\ IdleSearch /\ IdleValidate /\ IdleTimeout /\ IdleLimit /\ IdleExport
    /\ IdleSanitize /\ IdleAuth

detailOtherVars ==
    <<searchVars, validateVars, timeoutVars, limitVars, exportVars,
                   sanitizeVars, authVars>>

\* line 251, and line 256 with an empty list
DSlice ==
    /\ d_pc = "slice"
    /\ d_places' = sliced_len(d_found, d_max_results)
    /\ d_i' = 1
    /\ d_pc' = IF d_places' = 0 THEN "done" ELSE "detail"
    /\ UNCHANGED <<d_max_results, d_found, d_result, d_events, d_budget,
                   detailOtherVars>>

\* the candidates processed so far whose details call raised or that had a
\* website to scrape
Departures ==
    Cardinality({j \in DOMAIN d_events :
                    d_events[j].fetch = "error" \/ d_events[j].scrape # "none"})

\* a chunk closed by a full count only: no pause after a shorter last chunk
DEndsChunk_full_only(p) == p % chunk_size(d_max_results) = 0

\* candidate p closes its chunk (lines 256-258)
DEndsChunk(p) == p % chunk_size(d_max_results) = 0 \/ p = d_places

\* a details call that raises ends the loops of the keyword
DDetail_abort_on_error ==
    /\ d_pc = "detail"
    /\ \E fetch \in {"ok", "error"}, scrape \in ScrapeOutcomes :
        /\ fetch = "error" => scrape = "none"
        /\ (fetch = "error" \/ scrape # "none") => Departures < d_budget
        /\ d_result' =
               IF fetch = "ok"
               THEN Append(d_result, [place |-> d_i,
                                      email |-> _extract_email(scrape)])
               ELSE d_result
        /\ d_events' = Append(d_events, call_event("place", d_i, fetch, scrape))
        /\ d_pc' = IF fetch = "error" THEN "done"
                   ELSE IF DEndsChunk(d_i) THEN "sleep" ELSE "detail"
    /\ d_i' = d_i + 1
    /\ UNCHANGED <<d_max_results, d_found, d_places, d_budget,
                   detailOtherVars>>

\* lines 258-288: the details of candidate d_i.  The call raises (line 286:
\* the candidate is skipped) or returns; then the email is extracted when
\* there is a website, and line 283 appends the record.
DDetail ==
    /\ d_pc = "detail"
    /\ \E fetch \in {"ok", "error"}, scrape \in ScrapeOutcomes :
        /\ fetch = "error" => scrape = "none"
        /\ (fetch = "error" \/ scrape # "none") => Departures < d_budget
        /\ d_result' =
               IF fetch = "ok"
               THEN Append(d_result, [place |-> d_i,
                                      email |-> _extract_email(scrape)])
               ELSE d_result
        /\ d_events' = Append(d_events, call_event("place", d_i, fetch, scrape))
    /\ d_i' = d_i + 1
    /\ d_pc' = IF DEndsChunk(d_i) THEN "sleep" ELSE "detail"
    /\ UNCHANGED <<d_max_results, d_found, d_places, d_budget,
                   detailOtherVars>>

\* line 291: the pause after a chunk; then the next chunk, or the loop ends
DSleep ==
    /\ d_pc = "sleep"
    /\ d_events' = Append(d_events, call_event("sleep", 0, "none", "none"))
    /\ d_pc' = IF d_i > d_places THEN "done" ELSE "detail"
    /\ UNCHANGED <<d_max_results, d_found, d_places, d_i, d_result,
                   d_budget, detailOtherVars>>

NextDetail == DSlice \/ DDetail \/ DSleep

SpecDetail == InitDetail /\ [][NextDetail]_vars

(***************************************************************************)
(* SpecChunk: the same lines for every effective max_results of            *)
(* 1..MaxChunkLimit and up to MaxChunkFound candidates, of which at most   *)
(* MaxChunkDepartures depart from the plain course.                        *)
(***************************************************************************)
InitChunk ==
    /\ d_max_results \in 1..MaxChunkLimit
    /\ d_found \in 0..MaxChunkFound
    /\ d_places = 0 /\ d_i = 0 /\ d_pc = "slice"
    /\ d_result = <<>> /\ d_events = <<>>
    /\ d_budget = MaxChunkDepartures
    /\ IdleSearch /\ IdleValidate /\ IdleTimeout /\ IdleLimit /\ IdleExport
    /\ IdleSanitize /\ IdleAuth

SpecChunk == InitChunk /\ [][NextDetail]_vars

(***************************************************************************)
(* Sheet names.  A name is a sequence of one-character strings; the empty  *)
(* sequence stands for None and for ''.                                    *)
(***************************************************************************)
DigitChars == <<"0", "1", "2", "3", "4", "5", "6", "7", "8", "9">>

\* a number below 100 in two digits ("%H", "%M", "%S")
TwoDigits(n) == <<DigitChars[(n \div 10) + 1], DigitChars[(n % 10) + 1]>>

\* datetime.now().strftime("%H%M%S") at clock reading t
strftime_HMS(t) ==
    TwoDigits((t \div 3600) % 24) \o TwoDigits((t \div 60) % 60)
        \o TwoDigits(t % 60)

\* the date of the export, "%Y%m%d"
Today == <<"2", "0", "2", "4", "0", "1", "1", "5">>

\* datetime.now().strftime("%Y%m%d_%H%M%S")
strftime_YmdHMS(t) == Today \o <<"_">> \o strftime_HMS(t)

\* line 156: the characters of the class [\\*?/\[\]:]
InvalidChars == {"\\", "*", "?", "/", "[", "]", ":"}

\* truncation that keeps SHEET_NAME_MAX_LENGTH characters before the suffix
_sanitize_sheet_name_keep_max(name, t) ==
    LET replaced == [j \in 1..Len(name) |->
                        IF name[j] \in InvalidChars THEN "_" ELSE name[j]]
    IN  IF Len(replaced) > SHEET_NAME_MAX_LENGTH
        THEN SubSeq(replaced, 1, SHEET_NAME_MAX_LENGTH)
                 \o <<"_">> \o strftime_HMS(t)
        ELSE replaced

\* _sanitize_sheet_name at clock reading t (lines 153-163)
_sanitize_sheet_name(name, t) ==
    LET replaced == [j \in 1..Len(name) |->
                        IF name[j] \in InvalidChars THEN "_" ELSE name[j]]
    IN  IF Len(replaced) > SHEET_NAME_MAX_LENGTH
        THEN SubSeq(replaced, 1, SHEET_NAME_MAX_LENGTH - 10)
                 \o <<"_">> \o strftime_HMS(t)
        ELSE replaced

(***************************************************************************)
(* SpecSanitize: _sanitize_sheet_name applied to a name, then to its own   *)
(* output.  The names are a head and a tail of up to MaxAffixLen           *)
(* characters around a filling of "b"; the fillings put the length of the  *)
(* name at, just below and just above SHEET_NAME_MAX_LENGTH.               *)
(***************************************************************************)
SanitizeAlphabet == InvalidChars \cup {"a", "_", "7"}

Filling(n) == [j \in 1..n |-> "b"]

FillingLens == {0} \cup ((MaxFillingLen - 4)..MaxFillingLen)

SanitizeNames ==
    {h \o Filling(n) \o t : h \in SeqsUpTo(SanitizeAlphabet, MaxAffixLen),
                            t \in SeqsUpTo(SanitizeAlphabet, MaxAffixLen),
                            n \in FillingLens}

\* clock readings: midnight, noon, the last second of the day
SanitizeClocks == {0, ClockStart, 86399}

InitSanitize ==
    /\ s_name \in SanitizeNames
    /\ s_clock \in SanitizeClocks
    /\ s_once = <<>> /\ s_clock2 = 0 /\ s_twice = <<>>
    /\ s_pc = "start"
    /\ IdleSearch /\ IdleValidate /\ IdleTimeout /\ IdleLimit /\ IdleDetail
    /\ IdleExport /\ IdleAuth

sanitizeOtherVars ==
    <<searchVars, validateVars, timeoutVars, limitVars, detailVars,
      exportVars, authVars>>

\* _sanitize_sheet_name(name) at clock reading s_clock
ApplySanitize ==
    /\ s_pc = "start"
    /\ s_once' = _sanitize_sheet_name(s_name, s_clock)
    /\ s_pc' = "once"
    /\ UNCHANGED <<s_name, s_clock, s_clock2, s_twice, sanitizeOtherVars>>

\* _sanitize_sheet_name applied to the output, at the same clock reading or
\* up to MaxCallSeconds later
ApplySanitizeAgain ==
    /\ s_pc = "once"
    /\ \E d \in 0..MaxCallSeconds :
        /\ s_clock2' = (s_clock + d) % 86400
        /\ s_twice' = _sanitize_sheet_name(s_once, s_clock2')
    /\ s_pc' = "twice"
    /\ UNCHANGED <<s_name, s_clock, s_once, sanitizeOtherVars>>

NextSanitize == ApplySanitize \/ ApplySanitizeAgain

SpecSanitize == InitSanitize /\ [][NextSanitize]_vars

(***************************************************************************)
(* The retry decorator of _create_new_sheet (line 165):                    *)
(*   @retry(stop=stop_after_attempt(3),                                    *)
(*          wait=wait_exponential(multiplier=1, min=4, max=10))            *)
(* Every call of the decorated function has its own attempt counter; an    *)
(* attempt that raises is followed by a sleep and another attempt with the *)
(* same arguments, until the third attempt has raised, when the call       *)
(* raises RetryError.                                                      *)
(***************************************************************************)
STOP_AFTER_ATTEMPT == 3
WAIT_MULTIPLIER == 1
WAIT_MIN == 4
WAIT_MAX == 10

\* the sleep after attempt number n has raised
wait_exponential(n) ==
    Max(WAIT_MIN, Min(WAIT_MULTIPLIER * 2^(n - 1), WAIT_MAX))

\* An exception leaves the innermost invocation.  Invocations whose last
\* attempt it was raise RetryError into the invocation that called them
\* (line 196 is inside that one's attempt); what is left is the stack whose
\* innermost invocation has an attempt to spare, or nothing.
RECURSIVE unwind(_)
unwind(fs) ==
    IF fs = <<>> THEN <<>>
    ELSE IF fs[Len(fs)].attempt_number < STOP_AFTER_ATTEMPT THEN fs
    ELSE unwind(SubSeq(fs, 1, Len(fs) - 1))

(***************************************************************************)
(* SpecExport: one call of export_to_sheets(businesses, sheet_name).       *)
(*                                                                         *)
(* The spreadsheet service is opaque.  createSheet(title) answers          *)
(* 'already exists' when the spreadsheet holds a sheet of that title;      *)
(* which titles it holds at the start is not known, so any title not yet   *)
(* seen may turn out to exist, and a title seen to exist, or created,      *)
(* exists from then on (titles).  Any call may also fail otherwise.  At    *)
(* most MaxFailures createSheet calls of one export fail.                  *)
(***************************************************************************)
ShortName == <<"l", "e", "a", "d", "s">>
SlashName == <<"q", "3", "/", "a", ":", "b">>
LongName == [j \in 1..MaxNameLen |-> "a"]
\* a name within the length that a time suffix takes beyond it
NearMaxName == [j \in 1..NearMaxNameLen |-> "a"]
NamePool == {<<>>, ShortName, SlashName, LongName, NearMaxName}

RecordLists == {[j \in 1..n |-> j] : n \in 0..MaxRecords}

InitExport ==
    /\ businesses \in RecordLists
    /\ sheet_name \in NamePool
    /\ xpc = "start"
    /\ frames = <<>> /\ titles = {} /\ calls = <<>>
    /\ xnow = ClockStart
    /\ created = <<>> /\ export_result = <<>>
    /\ IdleSearch /\ IdleValidate /\ IdleTimeout /\ IdleLimit /\ IdleDetail
    /\ IdleSanitize /\ IdleAuth

exportOtherVars ==
    <<searchVars, validateVars, timeoutVars, limitVars, detailVars,
      sanitizeVars, authVars>>

\* one entry of calls: a call of the spreadsheet service and its outcome,
\* or a sleep of the retry decorator (secs)
service_call(op, title, outcome) ==
    [op |-> op, title |-> title, outcome |-> outcome, secs |-> 0]

sleep_call(secs) ==
    [op |-> "sleep", title |-> <<>>, outcome |-> "ok", secs |-> secs]

CreateCalls == {j \in DOMAIN calls : calls[j].op = "createSheet"}

Failures ==
    Cardinality({j \in CreateCalls : calls[j].outcome # "ok"})

\* "if not businesses" (line 375)
no_businesses_never(b) == FALSE
no_businesses(b) == b = <<>>

\* lines 375-384: nothing to export returns None; otherwise the name (a
\* timestamp when none was given) goes to _create_new_sheet
ExportStart ==
    /\ xpc = "start"
    /\ IF no_businesses(businesses)
       THEN /\ xpc' = "returned"
            /\ frames' = frames
       ELSE /\ xpc' = "create"
            /\ frames' = <<[sheet_name |->
                                IF sheet_name = <<>>
                                THEN strftime_YmdHMS(xnow) ELSE sheet_name,
                            attempt_number |-> 1]>>
    /\ UNCHANGED <<businesses, sheet_name, titles, calls, xnow, created,
                   export_result, exportOtherVars>>

\* the innermost invocation of _create_new_sheet
Top == frames[Len(frames)]

\* lines 170-173: the title of the attempt
attempt_title ==
    _sanitize_sheet_name(IF Top.sheet_name = <<>>
                         THEN strftime_YmdHMS(xnow) ELSE Top.sheet_name,
                         xnow)

\* line 384: sheet_name = self._create_new_sheet(sheet_name)
created_sheet_name_requested(requested, returned) == requested
created_sheet_name(requested, returned) == returned

\* lines 168-198: one attempt of the innermost invocation.  The sheet is
\* created and the title returned through every invocation (lines 190 and
\* 196); or the title exists and the function calls itself with the title
\* and a time suffix (lines 193-196); or the call fails otherwise and the
\* exception goes to the retry decorator (line 198).
CreateSheet ==
    /\ xpc = "create"
    /\ \E d \in 0..MaxCallSeconds, outcome \in {"ok", "exists", "error"} :
        /\ outcome = "ok" => attempt_title \notin titles
        /\ outcome # "ok" => Failures < MaxFailures
        /\ xnow' = xnow + d
        /\ calls' = Append(calls,
                           service_call("createSheet", attempt_title, outcome))
        /\ titles' = IF outcome = "error" THEN titles
                     ELSE titles \cup {attempt_title}
        /\ CASE outcome = "ok" ->
                  /\ frames' = <<>>
                  /\ created' = created_sheet_name(frames[1].sheet_name,
                                                   attempt_title)
                  /\ xpc' = "header"
             [] outcome = "exists" ->
                  /\ frames' = Append(frames,
                        [sheet_name |-> attempt_title \o <<"_">>
                                            \o strftime_HMS(xnow'),
                         attempt_number |-> 1])
                  /\ created' = created
                  /\ xpc' = "create"
             [] outcome = "error" ->
                  /\ frames' = unwind(frames)
                  /\ created' = created
                  /\ xpc' = IF unwind(frames) = <<>> THEN "raised"
                            ELSE "backoff"
    /\ UNCHANGED <<businesses, sheet_name, export_result, exportOtherVars>>

\* the retry decorator sleeps, then calls the function again with the
\* arguments of the invocation
Backoff ==
    /\ xpc = "backoff"
    /\ xnow' = xnow + wait_exponential(Top.attempt_number)
    /\ calls' = Append(calls, sleep_call(wait_exponential(Top.attempt_number)))
    /\ frames' = [frames EXCEPT ![Len(frames)].attempt_number = @ + 1]
    /\ xpc' = "create"
    /\ UNCHANGED <<businesses, sheet_name, titles, created, export_result,
                   exportOtherVars>>

\* a header write whose failure is not raised
WriteHeader_ignore_error ==
    /\ xpc = "header"
    /\ \E outcome \in {"ok", "error"} :
        /\ calls' = Append(calls, service_call("update", created, outcome))
        /\ xpc' = "append"
    /\ UNCHANGED <<businesses, sheet_name, frames, titles, xnow, created,
                   export_result, exportOtherVars>>

\* lines 400-407: the header row; a failure raises ValueError (line 426)
WriteHeader ==
    /\ xpc = "header"
    /\ \E outcome \in {"ok", "error"} :
        /\ calls' = Append(calls, service_call("update", created, outcome))
        /\ xpc' = IF outcome = "ok" THEN "append" ELSE "raised"
    /\ UNCHANGED <<businesses, sheet_name, frames, titles, xnow, created,
                   export_result, exportOtherVars>>

\* line 420: return sheet_name
returned_name_requested(requested, title) == requested
returned_name(requested, title) == title

\* an append whose failure is not raised: the name is returned
AppendRows_return_on_error ==
    /\ xpc = "append"
    /\ \E outcome \in {"ok", "error"} :
        /\ calls' = Append(calls, service_call("append", created, outcome))
        /\ xpc' = "returned"
        /\ export_result' = returned_name(sheet_name, created)
    /\ UNCHANGED <<businesses, sheet_name, frames, titles, xnow, created,
                   exportOtherVars>>

\* lines 409-420: the data rows, and the name returned
AppendRows ==
    /\ xpc = "append"
    /\ \E outcome \in {"ok", "error"} :
        /\ calls' = Append(calls, service_call("append", created, outcome))
        /\ IF outcome = "ok"
           THEN /\ xpc' = "returned"
                /\ export_result' = returned_name(sheet_name, created)
           ELSE xpc' = "raised" /\ export_result' = export_result
    /\ UNCHANGED <<businesses, sheet_name, frames, titles, xnow, created,
                   exportOtherVars>>

NextExport ==
    ExportStart \/ CreateSheet \/ Backoff \/ WriteHeader \/ AppendRows

SpecExport == InitExport /\ [][NextExport]_vars

(***************************************************************************)
(* SpecAuth: the access control of the web layer (src/app.py).  The        *)
(* allow-lists are read once from the environment (lines 90-98); the       *)
(* browser session holds the id of the user that login_user stored; on     *)
(* every later request Flask-Login hands that id to load_user, and a route *)
(* under @login_required is served only if load_user returns a user.       *)
(* Emails and domains are sequences of one-character strings.              *)
(***************************************************************************)
Email_a_x == <<"a", "@", "x">>
Email_A_X == <<"A", "@", "X">>
Email_b_x == <<"b", "@", "x">>
Email_a_y == <<"a", "@", "y">>

\* what the userinfo endpoint may give as the email (none: <<>>)
GoogleEmails == {<<>>, Email_a_x, Email_A_X, Email_b_x, Email_a_y}

\* the entries the environment may list, as process_allowed_emails and
\* process_allowed_domains leave them (stripped, lower case)
ConfiguredEmails == {Email_a_x, Email_a_y}
ConfiguredDomains == {<<"x">>, <<"z">>}

\* str.lower()
lower(s) ==
    [j \in 1..Len(s) |->
        CASE s[j] = "A" -> "a" [] s[j] = "B" -> "b"
          [] s[j] = "X" -> "x" [] s[j] = "Y" -> "y"
          [] OTHER -> s[j]]

\* email.split('@')[-1]: what follows the last "@", or the whole string
RECURSIVE split_at_last(_)
split_at_last(s) ==
    IF \E j \in DOMAIN s : s[j] = "@"
    THEN LET first == CHOOSE j \in DOMAIN s :
                          s[j] = "@" /\ \A k \in 1..(j - 1) : s[k] # "@"
         IN  split_at_last(SubSeq(s, first + 1, Len(s)))
    ELSE s

\* lines 120-125: the id of the user load_user returns, or <<>> for None
load_user(email) ==
    IF strip(email) \in ALLOWED_EMAILS THEN strip(email) ELSE <<>>

\* line 207
is_allowed(email) ==
    \/ email \in ALLOWED_EMAILS
    \/ lower(split_at_last(email)) \in ALLOWED_DOMAINS

\* current_user.is_authenticated on a request: the session holds an id and
\* load_user knows it
is_authenticated ==
    session_user_id # <<>> /\ load_user(session_user_id) # <<>>

request(route, email, answer) ==
    [route |-> route, email |-> email, answer |-> answer]

InitAuth ==
    /\ ALLOWED_EMAILS \in SUBSET ConfiguredEmails
    /\ ALLOWED_DOMAINS \in SUBSET ConfiguredDomains
    /\ session_user_id = <<>>
    /\ last_request = request("none", <<>>, "none")
    /\ n_requests = 0
    /\ IdleSearch /\ IdleValidate /\ IdleTimeout /\ IdleLimit /\ IdleDetail
    /\ IdleExport /\ IdleSanitize

authOtherVars ==
    <<searchVars, validateVars, timeoutVars, limitVars, detailVars,
      exportVars, sanitizeVars>>

\* /authorize, lines 181-236: the callback of the OAuth flow.  The email of
\* the userinfo answer is stripped and lowered; without an email the answer
\* is 400; without any rule, or for an email that no rule admits, 403;
\* otherwise login_user stores User(email).id in the session (lines
\* 214-219) and the browser is sent to the home page.
Authorize ==
    /\ n_requests < MaxRequests
    /\ \E given \in GoogleEmails :
        LET email == lower(strip(given))
            answer ==
                IF email = <<>> THEN "400"
                ELSE IF ALLOWED_EMAILS = {} /\ ALLOWED_DOMAINS = {}
                THEN "403"
                ELSE IF is_allowed(email) THEN "logged_in"
                ELSE "403"
        IN  /\ session_user_id' = IF answer = "logged_in" THEN strip(email)
                                  ELSE session_user_id
            /\ last_request' = request("authorize", email, answer)
    /\ n_requests' = n_requests + 1
    /\ UNCHANGED <<ALLOWED_EMAILS, ALLOWED_DOMAINS, authOtherVars>>

\* /search, lines 253-255: under @login_required the request is served for
\* an authenticated user and sent to the login page otherwise
Search ==
    /\ n_requests < MaxRequests
    /\ last_request' = request("search", session_user_id,
                               IF is_authenticated THEN "served"
                               ELSE "unauthorized")
    /\ n_requests' = n_requests + 1
    /\ UNCHANGED <<ALLOWED_EMAILS, ALLOWED_DOMAINS, session_user_id,
                   authOtherVars>>

\* /logout, lines 245-251: logout_user removes the id from the session
Logout ==
    /\ n_requests < MaxRequests
    /\ IF is_authenticated
       THEN /\ session_user_id' = <<>>
            /\ last_request' = request("logout", session_user_id, "logged_out")
       ELSE /\ session_user_id' = session_user_id
            /\ last_request' = request("logout", session_user_id,
                                       "unauthorized")
    /\ n_requests' = n_requests + 1
    /\ UNCHANGED <<ALLOWED_EMAILS, ALLOWED_DOMAINS, authOtherVars>>

NextAuth == Authorize \/ Search \/ Logout

SpecAuth == InitAuth /\ [][NextAuth]_vars

(***************************************************************************)
(* Properties.                                                             *)
(***************************************************************************)
Range(f) == {f[j] : j \in DOMAIN f}

IsPrefix(a, b) == Len(a) <= Len(b) /\ SubSeq(b, 1, Len(a)) = a

IsSuffix(a, b) ==
    Len(a) <= Len(b) /\ SubSeq(b, Len(b) - Len(a) + 1, Len(b)) = a

\* _search_with_timeout has returned for task i_search - 1 and the next task
\* has not started: results, timed_out and snapshot are those of that task
Returned == pc \in {"search", "done"} /\ i_search > 1

\* The format of a postal code as the specification words it:
\* US is 5 digits, optionally followed by "-" and 4 digits; the other
\* country is exactly 6 digits.
AllDigits(s, from, to) == \A j \in from..to : s[j] \in Digits

WellFormed(s, ctry) ==
    IF ctry = "US"
    THEN \/ Len(s) = 5 /\ AllDigits(s, 1, 5)
         \/ Len(s) = 10 /\ AllDigits(s, 1, 5) /\ s[6] = "-"
                        /\ AllDigits(s, 7, 10)
    ELSE Len(s) = 6 /\ AllDigits(s, 1, 6)

\* nothing of the search has happened: no task started, no external call
NoSearchYet ==
    /\ pc \in {"validate", "raised"}
    /\ wpc = "none"
    /\ called = {}
    /\ \A t \in 1..NTasks : status[t].state = "PENDING"

\* C1: when the deadline of a task elapses with k >= 1 records appended,
\* the list _search_with_timeout hands to its caller is exactly those k
\* records (nothing the worker appends afterwards is visible).
C1_TimeoutReturnsExactlySnapshot ==
    (Returned /\ timed_out /\ Len(snapshot) >= 1) => results = snapshot

\* C2: once the deadline has elapsed the controller does not wait for the
\* worker: it is never found, after the deadline, still inside
\* _search_with_timeout with the worker running.
C2_ControllerNeverWaitsForWorker ==
    ~(pc = "shutdown" /\ timed_out /\ WorkerRunning /\ now > deadline)

\* Companion of C2: whenever _search_with_timeout has returned, the worker
\* of that task has finished.
ReturnedOnlyAfterWorkerFinished == Returned => wpc = "finished"

\* C3: search_businesses completes within the sum of the per-postal-code
\* deadlines.
C3_ReturnsWithinSumOfDeadlines ==
    pc = "done" => now <= NTasks * search_timeout

\* C4: every record appended before the deadline elapsed is in the list
\* _search_with_timeout returns for that task, and so in the list
\* search_businesses returns.
C4_PartialOutputKept ==
    (Returned /\ timed_out) =>
        /\ IsPrefix(snapshot, results)
        /\ IsSuffix(results, all_results)
        /\ Range(snapshot) \subseteq Range(ReturnValue)

C4_Witness ==
    /\ pc = "done" /\ NTasks = 2
    /\ timed_out /\ Len(snapshot) >= 1
    /\ Len(all_results) > Len(results)

\* C5, as claimed: if any postal code of the request is malformed for the
\* country, nothing of the search ever happens.
C5_MalformedRaisesFirst ==
    (\E t \in 1..NTasks : ~WellFormed(postal_codes[t], country))
        => NoSearchYet

\* C5, amended: if any postal code of the request, with leading and
\* trailing whitespace stripped, is malformed for the country, validation
\* never passes that code and nothing of the search ever happens, whatever
\* the position of the code.
C5_StrippedMalformedRaisesFirst ==
    \A t \in 1..NTasks :
        ~WellFormed(strip(postal_codes[t]), country)
            => NoSearchYet /\ i_validate <= t

C5_Witness ==
    /\ pc = "raised" /\ NTasks = 2 /\ i_validate = 2
    /\ WellFormed(strip(postal_codes[1]), country)
    /\ postal_codes[1] # strip(postal_codes[1])
    /\ ~WellFormed(strip(postal_codes[2]), country)
    /\ called = {}

\* C6: validate_postal_code returns true exactly for the well-formed
\* strings of the country and false for every other string.
C6_ValidateExactlyWellFormed ==
    v_result # "unset" =>
        (v_result = "True" <=> WellFormed(v_code, v_country))

\* C7: a postal code whose geocoding returns no match aborts only its own
\* task: the request does not raise once the search has begun, every
\* postal code is searched, every record comes from a task whose geocoding
\* found a match, and the returned list is exactly the records the tasks
\* appended.
C7_NoMatchAbortsOnlyItsTask ==
    /\ pc = "raised" => called = {}
    /\ \A j \in 1..Len(appended) :
          \E t \in 1..NTasks :
              /\ geo[t] = "found"
              /\ appended[j].postal_code = strip(postal_codes[t])
    /\ pc = "done" =>
          /\ \A t \in 1..NTasks : geo[t] # "pending"
          /\ ReturnValue = appended

C7_Witness ==
    /\ pc = "done" /\ NTasks = 2
    /\ geo[1] = "nomatch" /\ geo[2] = "found"
    /\ Len(ReturnValue) >= 1

\* number of entries of the error list that name postal code c
ErrorsFor(c) ==
    Cardinality({j \in DOMAIN errors : errors[j].postal_code = c})

\* number of tasks for postal code c whose geocoding returned no match
UnresolvedTasks(c) ==
    Cardinality({t \in 1..NTasks :
                    strip(postal_codes[t]) = c /\ geo[t] = "nomatch"})

\* C8: when the request finishes the error list holds one entry for each
\* task whose geocoding returned no match, and none for the other postal
\* codes.
C8_OneErrorPerUnresolvedCode ==
    pc = "done" =>
        \A t \in 1..NTasks :
            ErrorsFor(strip(postal_codes[t]))
                = UnresolvedTasks(strip(postal_codes[t]))

\* every task failed: an unresolved code or an error with no record, or a
\* timeout with no record
AllTasksFailed ==
    \A t \in 1..NTasks :
        \/ status[t].state = "FAILED"
        \/ status[t].state = "TIMED_OUT" /\ status[t].records = 0

\* every task completed and no keyword search returned a candidate
NothingMatched ==
    /\ \A t \in 1..NTasks :
          status[t].state = "COMPLETED" /\ geo[t] = "found"
    /\ "place" \notin called

\* what search_businesses returns when nothing matched
NoMatchReturns == {<<>>}

\* Companion of C9: a request in which nothing matched returns the empty
\* list.
NothingMatchedReturnsEmpty ==
    (pc = "done" /\ NothingMatched) => ReturnValue \in NoMatchReturns

\* C9: a request in which every task failed does not return what a request
\* in which nothing matched returns.
C9_FailureDistinguished ==
    (pc = "done" /\ AllTasksFailed) => ReturnValue \notin NoMatchReturns

\* C10: _calculate_timeout is monotonic non-decreasing over the positive
\* integers, never exceeds MAX_SEARCH_TIMEOUT, and is BASE_SEARCH_TIMEOUT
\* at 20.
C10_TimeoutMonotoneBounded ==
    /\ (/\ timeout_a # NoneInt /\ timeout_b # NoneInt
        /\ ~NotPositive(max_results_a) /\ ~NotPositive(max_results_b)
        /\ max_results_a[1] <= max_results_b[1])
           => timeout_a[1] <= timeout_b[1]
    /\ timeout_a # NoneInt => timeout_a[1] <= MAX_SEARCH_TIMEOUT
    /\ (timeout_a # NoneInt /\ max_results_a = Some(DEFAULT_MAX_RESULTS))
           => timeout_a[1] = BASE_SEARCH_TIMEOUT

C10_Witness ==
    /\ max_results_a = Some(41) /\ timeout_a = Some(122)
    /\ max_results_b = Some(101) /\ timeout_b = Some(MAX_SEARCH_TIMEOUT)

\* C11: _calculate_timeout has no error outcome (it can always be applied)
\* and its result is at least 1; for None, 0 and the negatives the result
\* is the result for DEFAULT_MAX_RESULTS.
C11_TimeoutAlwaysPositive ==
    /\ timeout_a = NoneInt => ENABLED ApplyTimeoutA
    /\ timeout_a # NoneInt => timeout_a[1] >= 1
    /\ (/\ timeout_a # NoneInt /\ timeout_b # NoneInt
        /\ NotPositive(max_results_a)
        /\ max_results_b = Some(DEFAULT_MAX_RESULTS))
           => timeout_a = timeout_b

C11_Witness ==
    /\ max_results_a = Some(-1) /\ timeout_a = Some(BASE_SEARCH_TIMEOUT)
    /\ max_results_b = Some(1) /\ timeout_b = Some(3)

\* C12: for every max_results handed to search_businesses (None, 0, a
\* negative, a value above MAX_ALLOWED_RESULTS) the effective count that
\* _search_with_timeout uses lies in 1..MAX_ALLOWED_RESULTS, and is
\* DEFAULT_MAX_RESULTS when max_results is None.
C12_EffectiveLimitInRange ==
    l_limit # NoneInt =>
        /\ l_limit[1] \in 1..MAX_ALLOWED_RESULTS
        /\ l_max_results = NoneInt => l_limit[1] = DEFAULT_MAX_RESULTS

\* Companion of C12: the claim holds for None, 0 and the positive
\* arguments; a negative argument is its own effective count.
EffectiveLimitOfNonNegative ==
    (l_limit # NoneInt /\ (l_max_results = NoneInt \/ l_max_results[1] >= 0))
        => /\ l_limit[1] \in 1..MAX_ALLOWED_RESULTS
           /\ NotPositive(l_max_results) => l_limit[1] = DEFAULT_MAX_RESULTS

EffectiveLimitOfNegative ==
    (l_limit # NoneInt /\ l_max_results # NoneInt /\ l_max_results[1] < 0)
        => /\ l_limit = l_max_results
           /\ l_kept[1] = Max(l_found + l_max_results[1], 0)

\* number of records of a list tagged with postal code c and keyword k
TaggedCount(list, c, k) ==
    Cardinality({j \in DOMAIN list :
                    list[j].postal_code = c /\ list[j].keyword = k})

\* C13: the candidates processed for a (postal code, keyword) pair are the
\* first `limit` entries of the provider's list, so the returned list holds
\* at most `limit` records tagged with the pair and at most
\* |postal codes| x |keywords| x limit records in all.
C13_AtMostLimitPerPair ==
    all_results # <<>> =>
        /\ \A j \in DOMAIN all_results : all_results[j].place \in 1..limit
        /\ \A t \in 1..NTasks : \A k \in DOMAIN keywords :
              TaggedCount(all_results, strip(postal_codes[t]), keywords[k])
                  <= limit
        /\ Len(all_results) <= NTasks * Len(keywords) * limit

\* Companions of C13.  With an effective count of at least 1, each task
\* keeps for each keyword at most `limit` records, they are entries
\* 1..limit of the provider's list in increasing order, and the total is
\* bounded; the same pair is searched once per occurrence of the postal
\* code in the request.
PerTaskKeywordWithinLimit ==
    limit >= 1 =>
        /\ \A k \in DOMAIN keywords :
              Cardinality({j \in DOMAIN result :
                              result[j].keyword = keywords[k]}) <= limit
        /\ \A j \in DOMAIN result : result[j].place \in 1..limit
        /\ \A j1, j2 \in DOMAIN result :
              (j1 < j2 /\ result[j1].keyword = result[j2].keyword)
                  => result[j1].place < result[j2].place
        /\ Len(all_results) <= NTasks * Len(keywords) * limit

\* Reachable: a request with max_results = -1 returns records (the slice
\* of line 251 drops the last candidate and keeps the others).
NegativeLimitKeepsRecords ==
    pc = "done" /\ limit < 0 /\ Len(ReturnValue) > 0

\* Reachable: a request that names one postal code twice returns more than
\* `limit` records tagged with one pair, `limit` being positive.
RepeatedCodeExceedsLimit ==
    /\ pc = "done" /\ limit >= 1 /\ NTasks = 2
    /\ strip(postal_codes[1]) = strip(postal_codes[2])
    /\ TaggedCount(ReturnValue, strip(postal_codes[1]), keywords[1]) > limit

\* the task _search_with_timeout last returned for
LastTask == i_search - 1

\* the place search for keywords[k] of the last task returned (ok) or raised
PlacesOutcome(k, ok) ==
    \E o \in outcomes :
        /\ o.op = "places" /\ o.task = LastTask /\ o.keyword = keywords[k]
        /\ ok <=> o.found # -1

\* the record of the last task for candidate p of keyword kwd
RecordOf(kwd, p) ==
    [postal_code |-> strip(postal_codes[LastTask]), keyword |-> kwd,
     place |-> p]

\* C14: a place search that raises does not abort the task.  When a task
\* whose geocoding succeeded has returned, every keyword has been searched
\* (whether or not an earlier search raised), every record collected is in
\* the list returned, and the task is not FAILED.
C14_KeywordErrorDoesNotAbortTask ==
    (Returned /\ geo[LastTask] = "found") =>
        /\ \A k \in DOMAIN keywords :
              PlacesOutcome(k, TRUE) \/ PlacesOutcome(k, FALSE)
        /\ IsSuffix(results, appended)
        /\ ReturnValue = appended
        /\ status[LastTask].state # "FAILED"

C14_Witness ==
    /\ Returned /\ geo[LastTask] = "found"
    /\ PlacesOutcome(1, FALSE) /\ PlacesOutcome(2, TRUE)
    /\ \E p \in 1..MaxPlaces : RecordOf(keywords[2], p) \in Range(results)
    /\ status[LastTask].state = "COMPLETED"

\* Reachable: records collected for the first keyword are returned by a
\* task whose search for the second keyword raised.
EarlierRecordsKept ==
    /\ Returned /\ PlacesOutcome(2, FALSE)
    /\ \E p \in 1..MaxPlaces : RecordOf(keywords[1], p) \in Range(results)

\* the candidates for which d_result holds a record
RecordedPlaces == {d_result[j].place : j \in DOMAIN d_result}

\* the details calls made so far
PlaceEvents == {d_events[j] : j \in {n \in DOMAIN d_events :
                                        d_events[n].op = "place"}}

\* the candidates among the first n whose details call has the outcome
FetchedPlaces(fetch) == {e.place : e \in {x \in PlaceEvents : x.fetch = fetch}}

\* C15, as claimed: a candidate whose details call or whose scraping
\* failed has no record; every other candidate is processed; the records
\* are exactly the candidates whose details call succeeded.
C15_FailureSkipsCandidate ==
    /\ \A e \in PlaceEvents :
          (e.fetch = "error" \/ e.scrape = "failed")
              => e.place \notin RecordedPlaces
    /\ d_pc = "done" =>
          /\ {e.place : e \in PlaceEvents} = 1..d_places
          /\ RecordedPlaces = FetchedPlaces("ok")

\* C15, amended: a candidate whose details call failed has no record; a
\* candidate whose scraping failed has its record, with an empty email;
\* every candidate of the slice is processed once, in order, whatever
\* failed before it; the records are exactly the candidates whose details
\* call succeeded, in that order.
C15_DetailFailureSkipsCandidate ==
    /\ \A e \in PlaceEvents :
          /\ e.fetch = "error" => e.place \notin RecordedPlaces
          /\ e.scrape = "failed" =>
                 [place |-> e.place, email |-> ""] \in Range(d_result)
    /\ \A j \in DOMAIN d_result : d_result[j].place < d_i
    /\ \A j1, j2 \in DOMAIN d_result :
          j1 < j2 => d_result[j1].place < d_result[j2].place
    /\ d_pc \in {"detail", "sleep", "done"} =>
          /\ {e.place : e \in PlaceEvents} = 1..(d_i - 1)
          /\ Cardinality(PlaceEvents) = d_i - 1
          /\ RecordedPlaces = FetchedPlaces("ok")
    /\ d_pc = "done" => d_i = d_places + 1

C15_Witness ==
    /\ d_pc = "done" /\ d_places = 4
    /\ FetchedPlaces("error") = {1}
    /\ RecordedPlaces = {2, 3, 4}
    /\ [place |-> 3, email |-> ""] \in Range(d_result)
    /\ call_event("place", 3, "ok", "failed") \in PlaceEvents

\* the place search of task t for keyword kwd returned n candidates
PlacesFound(t, kwd, n) ==
    [op |-> "places", task |-> t, keyword |-> kwd, found |-> n] \in outcomes

\* a details call of task t for keyword kwd raised
DetailFailed(t, kwd) ==
    [op |-> "place", task |-> t, keyword |-> kwd, found |-> -1] \in outcomes

\* every record of the list carries the postal code of task t and the
\* keyword of a place search of that task that returned the candidate
TaggedBy(list, t) ==
    \A j \in DOMAIN list :
        /\ list[j].postal_code = strip(postal_codes[t])
        /\ \E n \in list[j].place..MaxPlaces :
               PlacesFound(t, list[j].keyword, n)

\* C16: when the geocoding of a task succeeded and the place search of a
\* keyword returned n <= limit candidates whose details calls all
\* succeeded, the task's result holds exactly n records for the pair; and
\* every record of a result carries the postal code of its task and the
\* keyword of the search that produced it.
C16_ExactRecordsTagged ==
    /\ pc \in {"waiting", "shutdown"} => TaggedBy(result, i_search)
    /\ Returned =>
          /\ TaggedBy(results, LastTask)
          /\ \A k \in DOMAIN keywords : \A n \in 0..limit :
                (/\ geo[LastTask] = "found"
                 /\ PlacesFound(LastTask, keywords[k], n)
                 /\ ~DetailFailed(LastTask, keywords[k]))
                    => TaggedCount(results, strip(postal_codes[LastTask]),
                                   keywords[k]) = n

C16_Witness ==
    /\ pc = "done" /\ ~timed_out
    /\ postal_codes = <<Zip94105>> /\ country = "US" /\ limit = 2
    /\ PlacesFound(1, "bakery", 2) /\ ~DetailFailed(1, "bakery")
    /\ PlacesFound(1, "cafe", 1) /\ ~DetailFailed(1, "cafe")
    /\ TaggedCount(ReturnValue, Zip94105, "bakery") = 2
    /\ TaggedCount(ReturnValue, Zip94105, "cafe") = 1
    /\ Len(ReturnValue) = 3

\* the calls of the spreadsheet service issued so far
ServiceCalls == {j \in DOMAIN calls : calls[j].op # "sleep"}

\* C17: export_to_sheets called with no record returns None and issues no
\* call to the spreadsheet service.
C17_EmptyExportIsNoOp ==
    businesses = <<>> =>
        /\ calls = <<>>
        /\ xpc \in {"start", "returned"}
        /\ export_result = <<>>
        /\ titles = {}

C17_Witness ==
    businesses = <<>> /\ xpc = "returned" /\ export_result = <<>>

\* the createSheet calls issued so far, in order
CreateSeq == SelectSeq(calls, LAMBDA c : c.op = "createSheet")

\* the write calls issued so far, in order
WriteSeq == SelectSeq(calls, LAMBDA c : c.op \in {"update", "append"})

\* createSheet answered 'already exists' n - 1 times, then succeeded
CollisionsThenCreated(n) ==
    /\ Len(CreateSeq) = n
    /\ \A j \in 1..(n - 1) : CreateSeq[j].outcome = "exists"
    /\ CreateSeq[n].outcome = "ok"

\* C18: if createSheet answers 'already exists' for the first N - 1
\* attempts (N >= 2) and succeeds on attempt N, the export goes on to the
\* writes and fails only if a write fails; the name it returns is not the
\* requested name, nor the title first attempted, and is the title of the
\* sheet that was created and written to.
C18_CollisionRetryReturnsCreatedName ==
    \A n \in 2..(MaxFailures + 1) :
        CollisionsThenCreated(n) =>
            /\ xpc \in {"header", "append", "returned", "raised"}
            /\ xpc = "raised" =>
                   \E j \in DOMAIN WriteSeq : WriteSeq[j].outcome = "error"
            /\ created = CreateSeq[n].title
            /\ \A j \in 1..(n - 1) : created # CreateSeq[j].title
            /\ \A j \in DOMAIN WriteSeq : WriteSeq[j].title = created
            /\ xpc = "returned" =>
                   /\ export_result = created
                   /\ export_result # sheet_name
                   /\ Len(WriteSeq) = 2

C18_Witness ==
    /\ xpc = "returned" /\ sheet_name = ShortName
    /\ CollisionsThenCreated(3)
    /\ export_result = created /\ export_result # ShortName
    /\ Len(export_result) = Len(ShortName) + 14

\* every createSheet call issued so far failed
AllCreatesFailed == \A j \in DOMAIN CreateSeq : CreateSeq[j].outcome # "ok"

\* C19: one export issues at most 3 createSheet calls, whatever mix of
\* collisions and other errors occurs; once 3 calls have failed the export
\* has raised.
C19_AtMostThreeCreateAttempts ==
    /\ Len(CreateSeq) <= STOP_AFTER_ATTEMPT
    /\ (Len(CreateSeq) = STOP_AFTER_ATTEMPT /\ AllCreatesFailed)
           => xpc = "raised"

\* Companion of C19: while no createSheet call has answered 'already
\* exists', at most 3 are issued, and after the third failure the export
\* has raised with nothing else issued.
WithoutCollisionAtMostThree ==
    (\A j \in DOMAIN CreateSeq : CreateSeq[j].outcome # "exists") =>
        /\ Len(CreateSeq) <= STOP_AFTER_ATTEMPT
        /\ (Len(CreateSeq) = STOP_AFTER_ATTEMPT /\ AllCreatesFailed)
               => xpc = "raised" /\ WriteSeq = <<>>

\* Reachable: three collisions, and a fourth createSheet call that succeeds.
FourthCreateAttempt ==
    /\ CollisionsThenCreated(4)
    /\ xpc = "returned"

\* Reachable: a collision followed by three other errors in the invocation
\* it started, after which the decorator of the first invocation sleeps
\* before a fifth createSheet call.
RetryAfterFourFailures ==
    /\ xpc = "backoff" /\ Len(frames) = 1
    /\ Len(CreateSeq) = 4
    /\ CreateSeq[1].outcome = "exists"
    /\ \A j \in 2..4 : CreateSeq[j].outcome = "error"

\* C20: a header write or a data append is issued only after a createSheet
\* call has succeeded, and addresses the title of the sheet created; no
\* createSheet call follows the one that succeeded; when creation has
\* failed for good nothing was written.
C20_WritesOnlyAfterCreate ==
    /\ \A j \in DOMAIN calls :
          calls[j].op \in {"update", "append"} =>
              \E c \in 1..(j - 1) :
                  /\ calls[c].op = "createSheet" /\ calls[c].outcome = "ok"
                  /\ calls[c].title = calls[j].title
    /\ \A j \in DOMAIN CreateSeq :
          CreateSeq[j].outcome = "ok" => j = Len(CreateSeq)
    /\ AllCreatesFailed => WriteSeq = <<>>
    /\ (xpc = "raised" /\ AllCreatesFailed) =>
          /\ export_result = <<>>
          /\ Len(CreateSeq) >= STOP_AFTER_ATTEMPT

C20_Witness ==
    /\ xpc = "raised" /\ AllCreatesFailed
    /\ Len(CreateSeq) = STOP_AFTER_ATTEMPT
    /\ WriteSeq = <<>> /\ export_result = <<>>

\* Reachable: both writes issued to the title created after a collision.
WritesAddressCreatedTitle ==
    /\ xpc = "returned" /\ CollisionsThenCreated(2)
    /\ Len(WriteSeq) = 2
    /\ WriteSeq[1].title = CreateSeq[2].title
    /\ WriteSeq[2].title = CreateSeq[2].title


\* the characters of s that the sheet service rejects
InvalidIn(s) == {j \in DOMAIN s : s[j] \in InvalidChars}

\* C21: the output of _sanitize_sheet_name holds none of the characters
\* \ * ? / [ ] : and is at most SHEET_NAME_MAX_LENGTH characters long;
\* sanitizing the output again at the same clock reading returns it
\* unchanged.
C21_SanitizeIdempotentCleanBounded ==
    /\ s_pc \in {"once", "twice"} =>
          /\ InvalidIn(s_once) = {}
          /\ Len(s_once) <= SHEET_NAME_MAX_LENGTH
    /\ (s_pc = "twice" /\ s_clock2 = s_clock) => s_twice = s_once

C21_Witness ==
    /\ s_pc = "twice" /\ s_clock2 = s_clock
    /\ Len(s_name) > SHEET_NAME_MAX_LENGTH
    /\ InvalidIn(s_name) # {}
    /\ Len(s_once) = SHEET_NAME_MAX_LENGTH - 3
    /\ s_twice = s_once

\* Companion of C21: the second application returns its argument at a later
\* clock reading as well, and a name within the length leaves with its
\* length; a longer one leaves with SHEET_NAME_MAX_LENGTH - 3 characters.
SanitizeStableAtAnyClock ==
    /\ s_pc = "twice" => s_twice = s_once
    /\ s_pc \in {"once", "twice"} =>
          Len(s_once) = IF Len(s_name) > SHEET_NAME_MAX_LENGTH
                        THEN SHEET_NAME_MAX_LENGTH - 3 ELSE Len(s_name)

\* Reachable: a name of exactly SHEET_NAME_MAX_LENGTH characters with an
\* invalid last character is kept whole, the character replaced.
FullLengthNameKept ==
    /\ s_pc = "twice" /\ s_clock2 # s_clock
    /\ Len(s_name) = SHEET_NAME_MAX_LENGTH
    /\ s_name[SHEET_NAME_MAX_LENGTH] = ":"
    /\ Len(s_once) = SHEET_NAME_MAX_LENGTH
    /\ s_once[SHEET_NAME_MAX_LENGTH] = "_"


\* a write call of the export failed
WriteFailed == \E j \in DOMAIN WriteSeq : WriteSeq[j].outcome = "error"

\* the sheet was created and both writes succeeded, in this order, all three
\* under the title n
ExportedAs(n) ==
    /\ CreateSeq # <<>>
    /\ CreateSeq[Len(CreateSeq)] = service_call("createSheet", n, "ok")
    /\ WriteSeq = <<service_call("update", n, "ok"),
                    service_call("append", n, "ok")>>

\* C22: export_to_sheets returns a sheet name only when createSheet, the
\* header write and the append have all succeeded; when creation has
\* exhausted its retries, or a write has failed, it has raised and returned
\* no name.
C22_NameOnlyAfterAllSucceeded ==
    /\ export_result # <<>> => xpc = "returned" /\ ExportedAs(export_result)
    /\ (xpc = "returned" /\ businesses # <<>>) => export_result # <<>>
    /\ WriteFailed => xpc = "raised"
    /\ (CreateSeq # <<>> /\ AllCreatesFailed /\ frames = <<>>) =>
           xpc = "raised"
    /\ xpc = "raised" =>
           /\ export_result = <<>>
           /\ WriteFailed \/ (AllCreatesFailed /\ WriteSeq = <<>>)

C22_Witness ==
    /\ xpc = "raised" /\ export_result = <<>>
    /\ Len(WriteSeq) = 2 /\ WriteSeq[2].outcome = "error"
    /\ CreateSeq[Len(CreateSeq)].outcome = "ok"

\* Reachable: a name returned after one failed creation attempt.
ReturnedAfterRetry ==
    /\ xpc = "returned" /\ export_result = ShortName
    /\ Len(CreateSeq) = 2 /\ CreateSeq[1].outcome = "error"
    /\ ExportedAs(ShortName)

\* What the created sheet holds.  A call that fails changes nothing in the
\* spreadsheet; the header write puts one row, the append one row for each
\* record.
header_rows ==
    Cardinality({j \in DOMAIN WriteSeq :
                    WriteSeq[j].op = "update" /\ WriteSeq[j].outcome = "ok"})

data_rows ==
    IF \E j \in DOMAIN WriteSeq :
           WriteSeq[j].op = "append" /\ WriteSeq[j].outcome = "ok"
    THEN Len(businesses) ELSE 0

\* the service calls of the export, in order, without the sleeps
ServiceSeq == SelectSeq(calls, LAMBDA c : c.op # "sleep")

\* the calls are createSheet calls of which only the last may succeed, then
\* at most one header write, then at most one append, the append only after
\* a header write that succeeded
CallsInOrder ==
    /\ \A j \in DOMAIN ServiceSeq :
          /\ ServiceSeq[j].op = "update" =>
                /\ j > 1
                /\ ServiceSeq[j - 1].op = "createSheet"
                /\ ServiceSeq[j - 1].outcome = "ok"
          /\ ServiceSeq[j].op = "append" =>
                /\ j > 1
                /\ ServiceSeq[j - 1].op = "update"
                /\ ServiceSeq[j - 1].outcome = "ok"
                /\ j = Len(ServiceSeq)
    /\ Len(WriteSeq) <= 2

\* C23 as stated: the calls come in the order createSheet, header write,
\* append, the append only after the header write succeeded, and whenever
\* the export raises after the sheet was created, because the append failed
\* or was never reached, the sheet holds the header row and no data row.
C23_RaisedLeavesHeaderOnly ==
    /\ CallsInOrder
    /\ (xpc = "raised" /\ created # <<>>) =>
           header_rows = 1 /\ data_rows = 0

\* C23, amended: the order as above; when the append fails the export
\* raises and the sheet holds the header row and no data row; when the
\* header write fails the append is never issued, the export raises and the
\* sheet holds no row at all.
C23_FailedWriteLeavesPartialSheet ==
    /\ CallsInOrder
    /\ (xpc = "raised" /\ created # <<>>) =>
           /\ WriteFailed /\ data_rows = 0
           /\ WriteSeq[Len(WriteSeq)].outcome = "error"
           /\ WriteSeq[Len(WriteSeq)].op = "append" =>
                  header_rows = 1 /\ Len(WriteSeq) = 2
           /\ WriteSeq[Len(WriteSeq)].op = "update" =>
                  header_rows = 0 /\ Len(WriteSeq) = 1
    /\ xpc = "returned" /\ businesses # <<>> =>
           header_rows = 1 /\ data_rows = Len(businesses)

C23_Witness ==
    /\ xpc = "raised" /\ created = ShortName
    /\ header_rows = 1 /\ data_rows = 0
    /\ Len(businesses) = MaxRecords
    /\ Len(ServiceSeq) = 3 /\ ServiceSeq[3].op = "append"

\* Reachable: the header write fails and the created sheet is left empty.
HeaderFailureLeavesEmptySheet ==
    /\ xpc = "raised" /\ created # <<>>
    /\ header_rows = 0 /\ data_rows = 0
    /\ Len(WriteSeq) = 1

\* C24: two createSheet calls of one export are never issued one right
\* after the other: a sleep of the retry decorator, of WAIT_MIN to WAIT_MAX
\* seconds, lies between them, after a collision as after any other error.
C24_BackoffBetweenCreateAttempts ==
    /\ \A j \in DOMAIN calls :
          (j > 1 /\ calls[j].op = "createSheet") =>
              calls[j - 1].op = "sleep"
    /\ \A j \in DOMAIN calls :
          calls[j].op = "sleep" =>
              calls[j].secs >= WAIT_MIN /\ calls[j].secs <= WAIT_MAX

\* Companion of C24: the sleep lies between an attempt that failed with
\* another error than a collision and the attempt that follows it;
\* every sleep follows such an attempt and lasts WAIT_MIN seconds.
BackoffAfterErrorOnly ==
    \A j \in DOMAIN calls :
        /\ (j > 1 /\ calls[j].op = "createSheet") =>
              CASE calls[j - 1].op = "createSheet" ->
                       calls[j - 1].outcome = "exists"
                [] calls[j - 1].op = "sleep" ->
                       /\ j > 2
                       /\ calls[j - 2].op = "createSheet"
                       /\ calls[j - 2].outcome = "error"
                [] OTHER -> FALSE
        /\ calls[j].op = "sleep" =>
              /\ calls[j].secs = WAIT_MIN
              /\ j > 1 /\ calls[j - 1].op = "createSheet"
              /\ calls[j - 1].outcome = "error"

\* Reachable: a collision answered by a second createSheet call in the same
\* second, no sleep between the two.
CollisionRetriedAtOnce ==
    /\ Len(calls) = 2 /\ xnow = ClockStart
    /\ calls[1].op = "createSheet" /\ calls[1].outcome = "exists"
    /\ calls[2].op = "createSheet" /\ calls[2].outcome = "ok"

\* C26: the title of the attempt that follows a collision differs from
\* every title attempted before it in the export.
C26_TitleAfterCollisionIsFresh ==
    \A j \in DOMAIN CreateSeq :
        (j > 1 /\ CreateSeq[j - 1].outcome = "exists") =>
            \A i \in 1..(j - 1) : CreateSeq[j].title # CreateSeq[i].title

\* Companion of C26: while the title that collided is at most
\* SHEET_NAME_MAX_LENGTH - 7 characters long the next title is the longer
\* by the suffix, and so differs from every title before it.
ShortTitleAfterCollisionIsFresh ==
    \A j \in DOMAIN CreateSeq :
        (/\ j > 1 /\ CreateSeq[j - 1].outcome = "exists"
         /\ Len(CreateSeq[j - 1].title) <= SHEET_NAME_MAX_LENGTH - 7) =>
            /\ Len(CreateSeq[j].title) = Len(CreateSeq[j - 1].title) + 7
            /\ \A i \in 1..(j - 1) : CreateSeq[j].title # CreateSeq[i].title

\* Reachable: a name of NearMaxNameLen characters collides, the suffixed
\* title is truncated, collides, and is attempted again unchanged.
TruncatedTitleRepeated ==
    /\ sheet_name = NearMaxName
    /\ Len(CreateSeq) = 3
    /\ CreateSeq[1].outcome = "exists" /\ CreateSeq[2].outcome = "exists"
    /\ CreateSeq[3].title = CreateSeq[2].title


\* the chunk size the claim gives for a limit: clamp(limit div 10, 2, 5)
ClampedTenth(l) ==
    IF l < 30 THEN 2 ELSE IF l < 40 THEN 3 ELSE IF l < 50 THEN 4 ELSE 5

\* the sleeps among the first j events
SleepsUpTo(j) ==
    Cardinality({e \in 1..j : d_events[e].op = "sleep"})

\* the details calls among the first j events
PlacesUpTo(j) ==
    Cardinality({e \in 1..j : d_events[e].op = "place"})

\* the count of chunks of n candidates cut by size c
ChunkCount(n, c) == (n + c - 1) \div c

ChunksOfThree ==
    /\ d_pc = "done" /\ d_max_results = 39 /\ d_places = 7
    /\ SleepsUpTo(Len(d_events)) = 3 /\ d_events[4].op = "sleep"

ChunksOfFour ==
    /\ d_pc = "done" /\ d_max_results = 40 /\ d_places = 6
    /\ SleepsUpTo(Len(d_events)) = 2 /\ d_events[5].op = "sleep"

\* Reachable: a limit below the count found cuts the candidates, and the
\* one chunk of a single candidate is followed by its pause.
LimitOneSleepsOnce ==
    /\ d_pc = "done" /\ d_max_results = 1 /\ d_found = MaxChunkFound
    /\ Len(d_events) = 2 /\ d_events[2].op = "sleep"


\* the tasks whose worker has been submitted and has not been seen to end
\* by _search_with_timeout
RunningTasks == {j \in DOMAIN status : status[j].state = "RUNNING"}

\* C27: at most one search worker runs at any time.  A worker runs only
\* while the controller is inside _search_with_timeout for the same task
\* (blocked in future.result or in the executor's shutdown); when the
\* controller is about to start the task of the next postal code no worker
\* is running, after a timeout as well.
C27_OneWorkerAtATime ==
    /\ WorkerRunning =>
          /\ pc \in {"waiting", "shutdown"}
          /\ RunningTasks = {i_search}
    /\ Cardinality(RunningTasks) <= 1
    /\ (pc = "search" /\ i_search <= NTasks) =>
          /\ ~WorkerRunning
          /\ RunningTasks = {}
    /\ \A j \in DOMAIN status :
          (j < i_search /\ pc # "validate") =>
              status[j].state \in {"COMPLETED", "FAILED", "TIMED_OUT"}

C27_Witness ==
    /\ NTasks >= 2 /\ i_search = 2 /\ pc = "waiting"
    /\ status[1].state = "TIMED_OUT"
    /\ WorkerRunning /\ wpc = "detail"
    /\ RunningTasks = {2}

\* Reachable: the deadline of a task has passed and the controller waits in
\* the executor's shutdown for the worker of that task.
ControllerWaitsForTimedOutWorker ==
    /\ pc = "shutdown" /\ WorkerRunning /\ timed_out
    /\ i_search = 1 /\ NTasks >= 2 /\ now > deadline


\* C28: every user that authorize has logged in is recognised by load_user
\* on a later request, so a /search request of that session is served; and
\* authorize logs a user in only when a rule is configured and the email or
\* its domain is listed.
C28_LoggedInUserStaysAuthenticated ==
    /\ session_user_id # <<>> => load_user(session_user_id) # <<>>
    /\ (last_request.route = "search" /\ session_user_id # <<>>) =>
           last_request.answer = "served"
    /\ (last_request.route = "authorize"
            /\ last_request.answer = "logged_in") =>
           /\ ALLOWED_EMAILS # {} \/ ALLOWED_DOMAINS # {}
           /\ is_allowed(last_request.email)

\* Companion of C28: authorize logs in exactly the users that a rule admits
\* and none when both lists are empty; a user whose email is listed is
\* served on /search; nobody is served without having been logged in.
AuthorizeAdmitsListedOnly ==
    /\ (last_request.route = "authorize" /\ last_request.email # <<>>) =>
           (last_request.answer = "logged_in" <=>
                /\ ALLOWED_EMAILS # {} \/ ALLOWED_DOMAINS # {}
                /\ is_allowed(last_request.email))
    /\ (ALLOWED_EMAILS = {} /\ ALLOWED_DOMAINS = {}) => session_user_id = <<>>
    /\ session_user_id # <<>> => is_allowed(session_user_id)
    /\ (last_request.route = "search"
            /\ session_user_id \in ALLOWED_EMAILS) =>
           last_request.answer = "served"
    /\ last_request.answer = "served" => session_user_id \in ALLOWED_EMAILS

\* Reachable: a user admitted by the domain rule alone was logged in and
\* the /search request that follows is sent to the login page.
DomainUserRefused ==
    /\ session_user_id = Email_b_x
    /\ <<"x">> \in ALLOWED_DOMAINS
    /\ last_request = request("search", Email_b_x, "unauthorized")

\* Reachable: a user whose email is listed, given in upper case by the
\* provider, is logged in and served.
ListedUserServed ==
    /\ session_user_id = Email_a_x
    /\ last_request = request("search", Email_a_x, "served")
    /\ ALLOWED_DOMAINS = {}

=============================================================================
